---- MODULE Spec2Model ----
(***************************************************************************)
(* Alliance negotiation game: the GameState engine and the JSON-RPC        *)
(* dispatcher of alliance_mcp_server.py.                                   *)
(*                                                                         *)
(* Every request is handled by one call of the coroutine mcp_endpoint on   *)
(* the server's event loop.  Its only await is the reading of the payload; *)
(* from there to its return it contains no await, so the handling of a     *)
(* request is one atomic step.  GameState methods are operators from a     *)
(* game state (and the call's arguments) to an outcome: the game state     *)
(* they leave behind and either the returned value or the exception        *)
(* raised.                                                                 *)
(***************************************************************************)
EXTENDS Integers, Sequences, FiniteSets, TLC

VARIABLES players_by_name, players_by_private, current_round,
          current_supports, messages, in_flight

vars == <<players_by_name, players_by_private, current_round,
          current_supports, messages, in_flight>>

(* ------------------------------ bounds -------------------------------- *)

\* requests are explored while current_round < MaxRound, and while
\* current_round < MaxScoringRound where three players are followed
MaxRound == 3
MaxScoringRound == 2
\* send_message is explored while the log holds fewer than MaxMessages,
\* and fewer than MaxMessagesAll where every operation is followed together
MaxMessages == 2
MaxMessagesAll == 1
\* the requests that may be accepted and not yet handled at one time
MaxInFlight == 2

(* ------------------------------ inputs -------------------------------- *)

\* Python's None, and the marker of a key that a dict does not hold
None == "None"
Missing == "<missing>"

\* player names a caller may send
Names == {"A", "AB", "B"}
\* the names sent where every operation is followed together
Names2 == {"A", "B"}
\* message texts a caller may send
Texts == {"hi"}
\* the text json.loads makes of the JSON string "\ud800": one surrogate code
\* point, a Python str that str.encode("utf-8") rejects
LoneSurrogate == "<U+D800>"
\* the texts sent where the rendering of responses is followed
AnyTexts == Texts \cup {LoneSurrogate}
\* the values str(uuid.uuid4()) returns, in the order of the draws; uuid4 is
\* taken to be collision free
UuidStream == <<"u1", "u2", "u3", "u4">>
\* tokens a caller may send: the ones the stream can issue and one it cannot
Tokens == {"u1", "u2", "u3", "bogus"}
\* the tokens sent where two players play, and where three do
Tokens2 == {"u1", "u2", "bogus"}
Tokens3 == {"u1", "u2", "u3"}
\* JSON-RPC ids a caller may send (None: the payload has no id)
Ids == {"1", None}

\* code points of the names (TLC cannot look inside a string)
CodePoints(s) ==
    CASE s = "A" -> <<65>>
      [] s = "AB" -> <<65, 66>>
      [] s = "B" -> <<66>>
      [] OTHER -> <<>>

RECURSIVE SeqLess(_, _)
SeqLess(a, b) ==
    IF b = <<>> THEN FALSE
    ELSE IF a = <<>> THEN TRUE
    ELSE IF Head(a) # Head(b) THEN Head(a) < Head(b)
    ELSE SeqLess(Tail(a), Tail(b))

\* Python's str.__lt__: lexicographic order of the code points
str_lt(a, b) == SeqLess(CodePoints(a), CodePoints(b))

(* ---------------------------- game state ------------------------------ *)

\* A GameState object.  players_by_name is an insertion-ordered dict: the
\* sequence of its Player values, keyed by their name field.
\* players_by_private maps a token to the Player object it shares with
\* players_by_name; the shared object is named by its key in players_by_name.
GS == [players_by_name |-> players_by_name,
       players_by_private |-> players_by_private,
       current_round |-> current_round,
       current_supports |-> current_supports,
       messages |-> messages]

\* keys of players_by_name
PlayerNames(gs) ==
    {gs.players_by_name[i].name : i \in 1..Len(gs.players_by_name)}

\* players_by_name[name], for a key it holds
PlayerByName(gs, name) ==
    LET i == CHOOSE j \in 1..Len(gs.players_by_name) :
                 gs.players_by_name[j].name = name
    IN gs.players_by_name[i]

\* players_by_name[name] = player: a new key is appended, a held key keeps
\* its place
SetPlayer(gs, name, player) ==
    IF name \in PlayerNames(gs)
    THEN [i \in 1..Len(gs.players_by_name) |->
            IF gs.players_by_name[i].name = name THEN player
            ELSE gs.players_by_name[i]]
    ELSE Append(gs.players_by_name, player)

\* current_supports is an insertion-ordered dict too: the sequence of its
\* items, [supporter, target]
SupportKeys(supports) == {supports[i].supporter : i \in 1..Len(supports)}

\* supports.get(name)
SupportGet(supports, name) ==
    IF name \in SupportKeys(supports)
    THEN LET i == CHOOSE j \in 1..Len(supports) : supports[j].supporter = name
         IN supports[i].target
    ELSE None

\* as supports.setdefault(name, target) would: a held key keeps its target
SupportSetDefault(supports, name, target) ==
    IF name \in SupportKeys(supports)
    THEN supports
    ELSE Append(supports, [supporter |-> name, target |-> target])

\* supports[name] = target
SupportSet(supports, name, target) ==
    IF name \in SupportKeys(supports)
    THEN [i \in 1..Len(supports) |->
            IF supports[i].supporter = name
            THEN [supporter |-> name, target |-> target]
            ELSE supports[i]]
    ELSE Append(supports, [supporter |-> name, target |-> target])

\* an outcome of a GameState method
Return(gs, value) == [raised |-> FALSE, gs |-> gs, value |-> value, exc |-> None]
Raise(gs, exc) == [raised |-> TRUE, gs |-> gs, value |-> None, exc |-> exc]

\* as the uniqueness test would be if it never raised
_ensure_nothing(gs, name) == Return(gs, None)

_ensure_player_name_unique(gs, name) ==
    IF name \in PlayerNames(gs)
    THEN Raise(gs, "Player '" \o name \o "' already exists")
    ELSE Return(gs, None)

\* the value is the name of the Player found
_get_player_by_private(gs, private_id) ==
    IF private_id \in DOMAIN gs.players_by_private
    THEN Return(gs, gs.players_by_private[private_id])
    ELSE Raise(gs, "Unknown private_id")

\* as the lookup would be if it never raised
_get_player_by_name_lenient(gs, name) == Return(gs, name)

_get_player_by_name(gs, name) ==
    IF name \in PlayerNames(gs)
    THEN Return(gs, name)
    ELSE Raise(gs, "Unknown player '" \o name \o "'")

\* as the list would be without the round_number test
messages_any_round(gs, name) ==
    LET F[i \in 0..Len(gs.messages)] ==
            IF i = 0 THEN <<>>
            ELSE IF gs.messages[i].to_player = name
            THEN Append(F[i - 1], [from |-> gs.messages[i].from_player,
                                   message |-> gs.messages[i].message])
            ELSE F[i - 1]
    IN F[Len(gs.messages)]

\* messages_received_this_round of a status
messages_this_round(gs, name) ==
    LET keep(m) == m.to_player = name /\ m.round_number = gs.current_round
        item(m) == [from |-> m.from_player, message |-> m.message]
        F[i \in 0..Len(gs.messages)] ==
            IF i = 0 THEN <<>>
            ELSE IF keep(gs.messages[i]) THEN Append(F[i - 1], item(gs.messages[i]))
            ELSE F[i - 1]
    IN F[Len(gs.messages)]

\* as the list would be if each entry carried the other player's token
other_players_disclosing(gs, name) ==
    LET me == PlayerByName(gs, name)
        item(other) ==
            [player_name |-> other.name,
             private_id |-> other.private_id,
             score |-> other.score,
             supported_you_last_round |->
                 other.name \in me.supported_you_last_round]
        F[i \in 0..Len(gs.players_by_name)] ==
            IF i = 0 THEN <<>>
            ELSE IF gs.players_by_name[i].name = name THEN F[i - 1]
            ELSE Append(F[i - 1], item(gs.players_by_name[i]))
    IN F[Len(gs.players_by_name)]

\* other_players of a status
other_players(gs, name) ==
    LET me == PlayerByName(gs, name)
        item(other) ==
            [player_name |-> other.name,
             score |-> other.score,
             supported_you_last_round |->
                 other.name \in me.supported_you_last_round]
        F[i \in 0..Len(gs.players_by_name)] ==
            IF i = 0 THEN <<>>
            ELSE IF gs.players_by_name[i].name = name THEN F[i - 1]
            ELSE Append(F[i - 1], item(gs.players_by_name[i]))
    IN F[Len(gs.players_by_name)]

_build_status(gs, name) ==
    LET player == PlayerByName(gs, name)
    IN [player_name |-> player.name,
        private_id |-> player.private_id,
        score |-> player.score,
        round_number |-> gs.current_round,
        seconds_remaining |-> 0,
        other_players |-> other_players(gs, name),
        messages_received_this_round |-> messages_this_round(gs, name)]

\* as a generator that repeats its first value would
uuid4_repeating(gs) == UuidStream[1]

\* str(uuid.uuid4()): one draw is made per successful registration
uuid4(gs) == UuidStream[Len(gs.players_by_name) + 1]

\* as register_player would be without the write to players_by_private
register_player_token_unmapped(gs, player_name) ==
    LET unique == _ensure_player_name_unique(gs, player_name)
    IN IF unique.raised THEN unique
       ELSE LET private_id == uuid4(gs)
                player == [name |-> player_name,
                           private_id |-> private_id,
                           score |-> 0,
                           supported_you_last_round |-> {}]
                gs1 == [gs EXCEPT !.players_by_name =
                                      SetPlayer(gs, player_name, player)]
            IN Return(gs1, _build_status(gs1, player_name))

register_player(gs, player_name) ==
    LET unique == _ensure_player_name_unique(gs, player_name)
    IN IF unique.raised THEN unique
       ELSE LET private_id == uuid4(gs)
                player == [name |-> player_name,
                           private_id |-> private_id,
                           score |-> 0,
                           supported_you_last_round |-> {}]
                gs1 == [gs EXCEPT !.players_by_name =
                                      SetPlayer(gs, player_name, player)]
                gs2 == [gs1 EXCEPT !.players_by_private =
                                      (private_id :> player_name) @@ @]
            IN Return(gs2, _build_status(gs2, player_name))

get_status(gs, private_id) ==
    LET player == _get_player_by_private(gs, private_id)
    IN IF player.raised THEN player
       ELSE Return(gs, _build_status(gs, player.value))

send_message(gs, private_id, recipient_player_name, message) ==
    LET sender == _get_player_by_private(gs, private_id)
    IN IF sender.raised THEN sender
       ELSE LET recipient == _get_player_by_name(gs, recipient_player_name)
            IN IF recipient.raised THEN recipient
               ELSE LET m == [from_player |-> sender.value,
                              to_player |-> recipient.value,
                              message |-> message,
                              round_number |-> gs.current_round]
                        gs1 == [gs EXCEPT !.messages = Append(@, m)]
                    IN Return(gs1, _build_status(gs1, sender.value))

\* as register_support would be with the ledger written before the checks
register_support_write_first(gs, private_id, player_to_support) ==
    LET supporter == _get_player_by_private(gs, private_id)
    IN IF supporter.raised THEN supporter
       ELSE LET gs1 == [gs EXCEPT !.current_supports =
                          SupportSet(@, supporter.value, player_to_support)]
            IN IF player_to_support = supporter.value
               THEN Raise(gs1, "You cannot support yourself")
               ELSE LET target == _get_player_by_name(gs1, player_to_support)
                    IN IF target.raised THEN target
                       ELSE Return(gs1, _build_status(gs1, supporter.value))

\* as register_support would be if it paid the target at once, and not at
\* the resolution of the round
register_support_scoring_at_once(gs, private_id, player_to_support) ==
    LET supporter == _get_player_by_private(gs, private_id)
    IN IF supporter.raised THEN supporter
       ELSE IF player_to_support = supporter.value
       THEN Raise(gs, "You cannot support yourself")
       ELSE LET target == _get_player_by_name(gs, player_to_support)
            IN IF target.raised THEN target
               ELSE LET gs1 == [gs EXCEPT !.current_supports =
                                    SupportSet(@, supporter.value, player_to_support)]
                        paid == [PlayerByName(gs1, target.value)
                                     EXCEPT !.score = @ + 1]
                        gs2 == [gs1 EXCEPT !.players_by_name =
                                    SetPlayer(gs1, target.value, paid)]
                    IN Return(gs2, _build_status(gs2, supporter.value))

register_support(gs, private_id, player_to_support) ==
    LET supporter == _get_player_by_private(gs, private_id)
    IN IF supporter.raised THEN supporter
       ELSE IF player_to_support = supporter.value
       THEN Raise(gs, "You cannot support yourself")
       ELSE LET target == _get_player_by_name(gs, player_to_support)
            IN IF target.raised THEN target
               ELSE LET gs1 == [gs EXCEPT !.current_supports =
                                    SupportSet(@, supporter.value, player_to_support)]
                    IN Return(gs1, _build_status(gs1, supporter.value))

\* sorted(names): ascending in str_lt
RECURSIVE sorted(_)
sorted(S) ==
    IF S = {} THEN <<>>
    ELSE LET least == CHOOSE x \in S : \A y \in S \ {x} : str_lt(x, y)
         IN <<least>> \o sorted(S \ {least})

\* supporters_of[target]: the supporters of target, in ledger order
supporters_of(gs, supports, target) ==
    LET F[i \in 0..Len(supports)] ==
            IF i = 0 THEN <<>>
            ELSE IF supports[i].target = target /\ target \in PlayerNames(gs)
            THEN Append(F[i - 1], supports[i].supporter)
            ELSE F[i - 1]
    IN F[Len(supports)]

\* set(list)
SetOf(list) == {list[i] : i \in 1..Len(list)}

\* as rule 1 would be with += 1 for += len(supporters)
supports_received_one(gs, supports) ==
    [i \in 1..Len(gs.players_by_name) |->
        LET p == gs.players_by_name[i]
            supporters == {j \in 1..Len(supports) : supports[j].target = p.name}
        IN IF supporters # {}
           THEN [p EXCEPT !.score = @ + 1,
                          !.supported_you_last_round =
                              {supports[j].supporter : j \in supporters}]
           ELSE [p EXCEPT !.supported_you_last_round = {}]]

\* as rule 1 would be without the clearing loop before it
supports_received_accumulating(gs, supports) ==
    [i \in 1..Len(gs.players_by_name) |->
        LET p == gs.players_by_name[i]
            supporters == supporters_of(gs, supports, p.name)
        IN IF supporters # <<>>
           THEN [p EXCEPT !.score = @ + Len(supporters),
                          !.supported_you_last_round = @ \cup SetOf(supporters)]
           ELSE p]

\* 1. SUPPORTS RECEIVED, after the clearing loop: the Player objects in
\* dict order
supports_received(gs, supports) ==
    [i \in 1..Len(gs.players_by_name) |->
        LET p == gs.players_by_name[i]
            supporters == supporters_of(gs, supports, p.name)
        IN IF supporters # <<>>
           THEN [p EXCEPT !.score = @ + Len(supporters),
                          !.supported_you_last_round = SetOf(supporters)]
           ELSE [p EXCEPT !.supported_you_last_round = {}]]

\* players[name].score += d
AddScore(players, name, d) ==
    [i \in 1..Len(players) |->
        IF players[i].name = name
        THEN [players[i] EXCEPT !.score = @ + d]
        ELSE players[i]]

\* as rule 2 would be without the supporter < target test
mutual_bonus_both_entries(players, supports) ==
    LET F[i \in 0..Len(supports)] ==
            IF i = 0 THEN players
            ELSE LET supporter == supports[i].supporter
                     target == supports[i].target
                 IN IF SupportGet(supports, target) = supporter
                    THEN [j \in 1..Len(players) |->
                            IF players[j].name \in {supporter, target}
                            THEN [F[i - 1][j] EXCEPT !.score = @ + 2]
                            ELSE F[i - 1][j]]
                    ELSE F[i - 1]
    IN F[Len(supports)]

\* 2. MUTUAL ALLIANCE BONUS
mutual_bonus(players, supports) ==
    LET F[i \in 0..Len(supports)] ==
            IF i = 0 THEN players
            ELSE LET supporter == supports[i].supporter
                     target == supports[i].target
                 IN IF str_lt(supporter, target)
                       /\ SupportGet(supports, target) = supporter
                    THEN AddScore(AddScore(F[i - 1], supporter, 2), target, 2)
                    ELSE F[i - 1]
    IN F[Len(supports)]

\* as rule 3 would be if it took nothing from a score that is not positive
unreciprocated_penalty_floored(players, supports) ==
    LET F[i \in 0..Len(supports)] ==
            IF i = 0 THEN players
            ELSE LET supporter == supports[i].supporter
                     target == supports[i].target
                     at == CHOOSE j \in 1..Len(players) :
                               players[j].name = supporter
                 IN IF SupportGet(supports, target) # supporter
                       /\ F[i - 1][at].score > 0
                    THEN AddScore(F[i - 1], supporter, -1)
                    ELSE F[i - 1]
    IN F[Len(supports)]

\* 3. UNRECIPROCATED PENALTY
unreciprocated_penalty(players, supports) ==
    LET F[i \in 0..Len(supports)] ==
            IF i = 0 THEN players
            ELSE LET supporter == supports[i].supporter
                     target == supports[i].target
                 IN IF SupportGet(supports, target) # supporter
                    THEN AddScore(F[i - 1], supporter, -1)
                    ELSE F[i - 1]
    IN F[Len(supports)]

\* as rule 4 would be with the test inverted
no_support_penalty_inverted(players, supports) ==
    [i \in 1..Len(players) |->
        IF players[i].name \in SupportKeys(supports)
        THEN [players[i] EXCEPT !.score = @ - 1]
        ELSE players[i]]

\* as rule 4 would be if it spared a player who received support
no_support_penalty_unsupported(players, supports) ==
    [i \in 1..Len(players) |->
        IF /\ players[i].name \notin SupportKeys(supports)
           /\ \A j \in 1..Len(supports) : supports[j].target # players[i].name
        THEN [players[i] EXCEPT !.score = @ - 1]
        ELSE players[i]]

\* as rule 4 would be if it fell on every player outside a mutual alliance
no_support_penalty_unallied(players, supports) ==
    [i \in 1..Len(players) |->
        IF \/ players[i].name \notin SupportKeys(supports)
           \/ SupportGet(supports, SupportGet(supports, players[i].name))
                  # players[i].name
        THEN [players[i] EXCEPT !.score = @ - 1]
        ELSE players[i]]

\* 4. NO SUPPORT PENALTY
no_support_penalty(players, supports) ==
    [i \in 1..Len(players) |->
        IF players[i].name \notin SupportKeys(supports)
        THEN [players[i] EXCEPT !.score = @ - 1]
        ELSE players[i]]

\* as the scoreboard would be with the rows in dict order
scores_list_in_dict_order(gs, supports) ==
    [i \in 1..Len(gs.players_by_name) |->
        LET name == gs.players_by_name[i].name
        IN [player_name |-> name,
            score |-> PlayerByName(gs, name).score,
            supported |-> SupportGet(supports, name),
            supporters_this_round |-> supporters_of(gs, supports, name)]]

\* the scoreboard rows, built after the four rules
scores_list(gs, supports) ==
    LET names == sorted(PlayerNames(gs))
    IN [i \in 1..Len(names) |->
          [player_name |-> names[i],
           score |-> PlayerByName(gs, names[i]).score,
           supported |-> SupportGet(supports, names[i]),
           supporters_this_round |-> supporters_of(gs, supports, names[i])]]

\* as advance_round would be if the counter wrapped back to 1 after round 2
advance_round_wrapping(gs) ==
    LET supports == gs.current_supports
        p4 == no_support_penalty(
                  unreciprocated_penalty(
                      mutual_bonus(supports_received(gs, supports), supports),
                      supports),
                  supports)
        gs1 == [gs EXCEPT !.players_by_name = p4]
        gs2 == [gs1 EXCEPT !.current_round = (@ % 2) + 1,
                           !.current_supports = <<>>]
    IN Return(gs2, [round_number |-> gs.current_round,
                    scores |-> scores_list(gs1, supports)])

\* as advance_round would be if it left the ledger as it was
advance_round_keeping_ledger(gs) ==
    LET supports == gs.current_supports
        p4 == no_support_penalty(
                  unreciprocated_penalty(
                      mutual_bonus(supports_received(gs, supports), supports),
                      supports),
                  supports)
        gs1 == [gs EXCEPT !.players_by_name = p4]
        gs2 == [gs1 EXCEPT !.current_round = @ + 1]
    IN Return(gs2, [round_number |-> gs.current_round,
                    scores |-> scores_list(gs1, supports)])

advance_round(gs) ==
    LET prev_round == gs.current_round
        supports == gs.current_supports
        p1 == supports_received(gs, supports)
        p2 == mutual_bonus(p1, supports)
        p3 == unreciprocated_penalty(p2, supports)
        p4 == no_support_penalty(p3, supports)
        gs1 == [gs EXCEPT !.players_by_name = p4]
        gs2 == [gs1 EXCEPT !.current_round = @ + 1,
                           !.current_supports = <<>>]
    IN Return(gs2, [round_number |-> prev_round,
                    scores |-> scores_list(gs1, supports)])

(* ----------------------------- dispatcher ------------------------------ *)

\* the catalog: each tool's name and the required keys of its inputSchema
TOOLS ==
    <<[name |-> "register_player", required |-> <<"player_name">>],
      [name |-> "get_status", required |-> <<"private_id">>],
      [name |-> "send_message",
       required |-> <<"private_id", "recipient_player_name", "message">>],
      [name |-> "register_support",
       required |-> <<"private_id", "player_to_support">>]>>

ToolNames == {TOOLS[i].name : i \in 1..Len(TOOLS)}

\* JSONResponse(status_code, content)
JSONResponse(status_code, content) ==
    [status_code |-> status_code, content |-> content]

_json_rpc_result(id_value, result_obj) ==
    JSONResponse(200, [jsonrpc |-> "2.0", id |-> id_value, result |-> result_obj])

_json_rpc_error(id_value, code, message) ==
    JSONResponse(200, [jsonrpc |-> "2.0", id |-> id_value,
                       error |-> [code |-> code, message |-> message]])

\* an exception that leaves mcp_endpoint: the framework answers 500
UnhandledException == JSONResponse(500, None)

\* JSON text, as the sequence of its tokens (white space left out)
Punct(c) == [t |-> "punct", v |-> c]
IsPunct(token, c) == token.t = "punct" /\ token.v = c
Str(s) == [t |-> "string", v |-> s]
Num(n) == [t |-> "number", v |-> n]
Bool(b) == [t |-> "literal", v |-> IF b THEN "true" ELSE "false"]

\* the text of a list whose items have the texts given
dumps_list(items) ==
    LET F[i \in 0..Len(items)] ==
            IF i = 0 THEN <<Punct("[")>>
            ELSE IF i = 1 THEN F[0] \o items[1]
            ELSE F[i - 1] \o <<Punct(",")>> \o items[i]
    IN Append(F[Len(items)], Punct("]"))

\* the text of an item of other_players
dumps_other(o) ==
    <<Punct("{"),
      Str("player_name"), Punct(":"), Str(o.player_name), Punct(","),
      Str("score"), Punct(":"), Num(o.score), Punct(","),
      Str("supported_you_last_round"), Punct(":"),
      Bool(o.supported_you_last_round),
      Punct("}")>>

\* the text of an item of messages_received_this_round
dumps_message(m) ==
    <<Punct("{"),
      Str("from"), Punct(":"), Str(m.from), Punct(","),
      Str("message"), Punct(":"), Str(m.message),
      Punct("}")>>

\* as a serializer that left the message list out would
json_dumps_without_messages(res) ==
    <<Punct("{"),
      Str("player_name"), Punct(":"), Str(res.player_name), Punct(","),
      Str("private_id"), Punct(":"), Str(res.private_id), Punct(","),
      Str("score"), Punct(":"), Num(res.score), Punct(","),
      Str("round_number"), Punct(":"), Num(res.round_number), Punct(","),
      Str("seconds_remaining"), Punct(":"), Num(res.seconds_remaining),
      Punct(","),
      Str("other_players"), Punct(":")>>
    \o dumps_list([i \in 1..Len(res.other_players) |->
                      dumps_other(res.other_players[i])])
    \o <<Punct(","), Str("messages_received_this_round"), Punct(":")>>
    \o dumps_list(<<>>)
    \o <<Punct("}")>>

\* json.dumps(res, indent=2), for the status dict res of a tool: the keys
\* in insertion order, str as string, int as number, bool as literal
json_dumps(res) ==
    <<Punct("{"),
      Str("player_name"), Punct(":"), Str(res.player_name), Punct(","),
      Str("private_id"), Punct(":"), Str(res.private_id), Punct(","),
      Str("score"), Punct(":"), Num(res.score), Punct(","),
      Str("round_number"), Punct(":"), Num(res.round_number), Punct(","),
      Str("seconds_remaining"), Punct(":"), Num(res.seconds_remaining),
      Punct(","),
      Str("other_players"), Punct(":")>>
    \o dumps_list([i \in 1..Len(res.other_players) |->
                      dumps_other(res.other_players[i])])
    \o <<Punct(","), Str("messages_received_this_round"), Punct(":")>>
    \o dumps_list([i \in 1..Len(res.messages_received_this_round) |->
                      dumps_message(res.messages_received_this_round[i])])
    \o <<Punct("}")>>

\* json.loads, as the client applies it to the text item: the value that
\* starts at token i of text, and the index of the token after it
RECURSIVE parse_value(_, _), parse_elements(_, _, _), parse_members(_, _, _)
parse_value(text, i) ==
    LET token == text[i]
    IN IF token.t \in {"string", "number"}
       THEN [value |-> token.v, next |-> i + 1]
       ELSE IF token.t = "literal"
       THEN [value |-> token.v = "true", next |-> i + 1]
       ELSE IF IsPunct(token, "[")
       THEN IF IsPunct(text[i + 1], "]")
            THEN [value |-> <<>>, next |-> i + 2]
            ELSE parse_elements(text, i + 1, <<>>)
       ELSE IF IsPunct(text[i + 1], "}")
            THEN [value |-> <<>>, next |-> i + 2]
            ELSE parse_members(text, i + 1, <<>>)

\* the elements of a list from token i on, after the elements in list
parse_elements(text, i, list) ==
    LET element == parse_value(text, i)
        longer == Append(list, element.value)
    IN IF IsPunct(text[element.next], ",")
       THEN parse_elements(text, element.next + 1, longer)
       ELSE [value |-> longer, next |-> element.next + 1]

\* the members of a dict from token i on, after the members in dict
parse_members(text, i, dict) ==
    LET member == parse_value(text, i + 2)
        larger == (text[i].v :> member.value) @@ dict
    IN IF IsPunct(text[member.next], ",")
       THEN parse_members(text, member.next + 1, larger)
       ELSE [value |-> larger, next |-> member.next + 1]

json_loads(text) == parse_value(text, 1).value

\* JSONResponse renders its content when it is constructed
\* (json.dumps(content, ensure_ascii=False).encode("utf-8")): whether the
\* status res of a tool passes, i.e. holds no text that utf-8 cannot encode
\* (names and tokens are encodable wherever they are sent here)
renders(res) ==
    \A i \in 1..Len(res.messages_received_this_round) :
        res.messages_received_this_round[i].message # LoneSurrogate

\* str(e) of the UnicodeEncodeError the rendering raises
UnicodeEncodeError ==
    "'utf-8' codec can't encode character '\\ud800': surrogates not allowed"

\* what a request comes to: the GameState it leaves and the response
Handled(gs, response) == [gs |-> gs, response |-> response]

\* arguments[key]: a KeyError when the dict does not hold the key
getitem(gs, arguments, key) ==
    IF arguments[key] = Missing
    THEN Raise(gs, "'" \o key \o "'")
    ELSE Return(gs, arguments[key])

\* the call the try block makes for a catalog tool; the arguments are
\* looked up left to right before the method is entered
call_tool(gs, name, arguments) ==
    IF name = "register_player"
    THEN LET a == getitem(gs, arguments, "player_name")
         IN IF a.raised THEN a ELSE register_player(gs, a.value)
    ELSE IF name = "get_status"
    THEN LET a == getitem(gs, arguments, "private_id")
         IN IF a.raised THEN a ELSE get_status(gs, a.value)
    ELSE IF name = "send_message"
    THEN LET a == getitem(gs, arguments, "private_id")
             b == getitem(gs, arguments, "recipient_player_name")
             c == getitem(gs, arguments, "message")
         IN IF a.raised THEN a
            ELSE IF b.raised THEN b
            ELSE IF c.raised THEN c
            ELSE send_message(gs, a.value, b.value, c.value)
    ELSE LET a == getitem(gs, arguments, "private_id")
             b == getitem(gs, arguments, "player_to_support")
         IN IF a.raised THEN a
            ELSE IF b.raised THEN b
            ELSE register_support(gs, a.value, b.value)

\* as the branch would be if the except clause answered with an error object
tools_call_protocol_error(gs, req_id, params) ==
    LET name == params.name
        res == call_tool(gs, name, params.arguments)
    IN IF name \notin {"register_player", "get_status", "send_message",
                       "register_support"}
       THEN Handled(gs, _json_rpc_error(req_id, -32602, "Unknown tool: " \o name))
       ELSE IF res.raised
       THEN Handled(res.gs, _json_rpc_error(req_id, -32000, "Error: " \o res.exc))
       ELSE IF ~renders(res.value)
       THEN Handled(res.gs, _json_rpc_error(req_id, -32000,
                                            "Error: " \o UnicodeEncodeError))
       ELSE Handled(res.gs, _json_rpc_result(req_id,
                [content |-> <<[type |-> "json", json |-> res.value],
                               [type |-> "text",
                                text |-> json_dumps(res.value)]>>,
                 isError |-> FALSE]))

\* as the branch would be if an unknown tool were reported like a domain
\* failure
tools_call_unknown_as_result(gs, req_id, params) ==
    LET name == params.name
        arguments == params.arguments
        res == IF name \in {"register_player", "get_status", "send_message",
                            "register_support"}
               THEN call_tool(gs, name, arguments)
               ELSE Raise(gs, "Unknown tool: " \o name)
    IN IF res.raised
       THEN Handled(res.gs, _json_rpc_result(req_id,
                [content |-> <<[type |-> "text",
                                text |-> "Error: " \o res.exc]>>,
                 isError |-> TRUE]))
       ELSE IF ~renders(res.value)
       THEN Handled(res.gs, _json_rpc_result(req_id,
                [content |-> <<[type |-> "text",
                                text |-> "Error: " \o UnicodeEncodeError]>>,
                 isError |-> TRUE]))
       ELSE Handled(res.gs, _json_rpc_result(req_id,
                [content |-> <<[type |-> "json", json |-> res.value],
                               [type |-> "text",
                                text |-> json_dumps(res.value)]>>,
                 isError |-> FALSE]))

\* the tools/call branch
tools_call(gs, req_id, params) ==
    LET name == params.name
        arguments == params.arguments
    IN IF name \notin {"register_player", "get_status", "send_message",
                       "register_support"}
       THEN Handled(gs, _json_rpc_error(req_id, -32602, "Unknown tool: " \o name))
       ELSE LET res == call_tool(gs, name, arguments)
            IN IF res.raised
               THEN Handled(res.gs, _json_rpc_result(req_id,
                        [content |-> <<[type |-> "text",
                                        text |-> "Error: " \o res.exc]>>,
                         isError |-> TRUE]))
               ELSE IF ~renders(res.value)
               \* the response is constructed inside the try block: its
               \* rendering error is caught like a failure of the tool,
               \* after the tool has returned
               THEN Handled(res.gs, _json_rpc_result(req_id,
                        [content |-> <<[type |-> "text",
                                        text |-> "Error: "
                                                 \o UnicodeEncodeError]>>,
                         isError |-> TRUE]))
               ELSE Handled(res.gs, _json_rpc_result(req_id,
                        [content |-> <<[type |-> "json", json |-> res.value],
                                       [type |-> "text",
                                        text |-> json_dumps(res.value)]>>,
                         isError |-> FALSE]))

\* methods under the notifications/ prefix that a caller may send
NotificationMethods ==
    {"notifications/initialized", "notifications/cancelled",
     "notifications/"}

\* as the test would be if it compared the method with one known name
IsNotificationMethod_exact(method) == method = "notifications/initialized"

\* as the test would be if the missing id alone made a notification
IsNotificationMethod_any(method) == TRUE

\* method.startswith("notifications/"), for the methods a caller may send
IsNotificationMethod(method) == method \in NotificationMethods

mcp_endpoint(gs, payload) ==
    LET method == payload.method
        req_id == payload.id
        params == payload.params
    IN IF req_id = None /\ method = None
       THEN Handled(gs, UnhandledException)
       ELSE IF req_id = None /\ IsNotificationMethod(method)
       THEN Handled(gs, JSONResponse(204, None))
       ELSE IF method = "initialize"
       THEN Handled(gs, _json_rpc_result(req_id,
                [protocolVersion |-> "2024-11-05",
                 capabilities |-> [tools |-> [listChanged |-> FALSE]],
                 serverInfo |-> [name |-> "Local Alliance Game MCP Server",
                                 version |-> "0.1.0"]]))
       ELSE IF method = "tools/list"
       THEN Handled(gs, _json_rpc_result(req_id,
                [tools |-> TOOLS, nextCursor |-> None]))
       ELSE IF method = "tools/call"
       THEN tools_call(gs, req_id, params)
       ELSE IF method = "game/advance_round"
       THEN LET scoreboard == advance_round(gs)
            IN Handled(scoreboard.gs, _json_rpc_result(req_id, scoreboard.value))
       ELSE Handled(gs, _json_rpc_error(req_id, -32601,
                                        "Method not found: " \o method))

(* ------------------------------ requests ------------------------------- *)

\* an arguments dict holding none of the keys the tools read
NoArguments ==
    [player_name |-> Missing, private_id |-> Missing,
     recipient_player_name |-> Missing, message |-> Missing,
     player_to_support |-> Missing]

\* a payload without params
Plain(method, id) ==
    [method |-> method, id |-> id,
     params |-> [name |-> None, arguments |-> NoArguments]]

\* a tools/call payload
Call(id, name, arguments) ==
    [method |-> "tools/call", id |-> id,
     params |-> [name |-> name, arguments |-> arguments]]

OrMissing(S) == S \cup {Missing}

RegisterPlayerCalls(ids, names) ==
    {Call(id, "register_player", [NoArguments EXCEPT !.player_name = n]) :
        id \in ids, n \in names}

GetStatusCalls(ids, tokens) ==
    {Call(id, "get_status", [NoArguments EXCEPT !.private_id = t]) :
        id \in ids, t \in tokens}

SendMessageCalls(ids, tokens, names, texts) ==
    {Call(id, "send_message",
          [NoArguments EXCEPT !.private_id = t,
                              !.recipient_player_name = n,
                              !.message = m]) :
        id \in ids, t \in tokens, n \in names, m \in texts}

RegisterSupportCalls(ids, tokens, names) ==
    {Call(id, "register_support",
          [NoArguments EXCEPT !.private_id = t, !.player_to_support = n]) :
        id \in ids, t \in tokens, n \in names}

\* tools/call naming no catalog tool (or no tool at all), with and without
\* arguments
UnknownToolCalls(ids) ==
    {Call(id, name, a) :
        id \in ids, name \in {"no_such_tool", None},
        a \in {NoArguments, [NoArguments EXCEPT !.private_id = "u1"]}}

\* the payloads of the methods that take no params
PlainPayloads(methods, ids) == {Plain(m, id) : m \in methods, id \in ids}

\* the tools/call payloads naming a catalog tool, well formed or not
ToolCalls(names, tokens) ==
    RegisterPlayerCalls(Ids, OrMissing(names))
    \cup GetStatusCalls(Ids, OrMissing(tokens))
    \cup SendMessageCalls(Ids, OrMissing(tokens), OrMissing(names),
                          OrMissing(Texts))
    \cup RegisterSupportCalls(Ids, OrMissing(tokens), OrMissing(names))

\* every payload a caller may send
Payloads(names, tokens) ==
    ToolCalls(names, tokens) \cup UnknownToolCalls(Ids)
    \cup PlainPayloads({"initialize", "tools/list", "game/advance_round",
                        "notifications/initialized", "no/such_method", None},
                       Ids)

\* the requests the server holds at one time: each is a call of
\* mcp_endpoint suspended at its await, on a connection of its own
Connections == 1..MaxInFlight

\* in_flight[c] is <<payload>> while the call on connection c is suspended
\* at await request.json(), and <<>> while the connection is idle
Init ==
    /\ players_by_name = <<>>
    /\ players_by_private = <<>>
    /\ current_round = 1
    /\ current_supports = <<>>
    /\ messages = <<>>
    /\ in_flight = [c \in Connections |-> <<>>]

\* the handler leaves the GameState object as gs
Becomes(gs) ==
    /\ players_by_name' = gs.players_by_name
    /\ players_by_private' = gs.players_by_private
    /\ current_round' = gs.current_round
    /\ current_supports' = gs.current_supports
    /\ messages' = gs.messages

\* the rounds the model follows: requests are explored until the advance
\* that opens round last_round has been made
Open(last_round) == current_round < last_round

\* one request, with no other in flight: the handler runs from the payload
\* to the response
Request(payload) ==
    /\ Becomes(mcp_endpoint(GS, payload).gs)
    /\ UNCHANGED in_flight

Notification(r) ==
    /\ Open(r)
    /\ \E p \in PlainPayloads({"notifications/initialized", None}, {None}) :
          Request(p)

Initialize(r) ==
    /\ Open(r)
    /\ \E p \in PlainPayloads({"initialize"}, Ids) : Request(p)

ToolsList(r) ==
    /\ Open(r)
    /\ \E p \in PlainPayloads({"tools/list"}, Ids) : Request(p)

RegisterPlayer(r, names) ==
    /\ Open(r)
    /\ \E p \in RegisterPlayerCalls({"1"}, names) : Request(p)

GetStatus(r, tokens) ==
    /\ Open(r)
    /\ \E p \in GetStatusCalls({"1"}, tokens) : Request(p)

SendMessage(r, tokens, names, texts, cap) ==
    /\ Open(r)
    /\ Len(messages) < cap
    /\ \E p \in SendMessageCalls({"1"}, tokens, names, texts) : Request(p)

RegisterSupport(r, tokens, names) ==
    /\ Open(r)
    /\ \E p \in RegisterSupportCalls({"1"}, tokens, names) : Request(p)

UnknownTool(r) ==
    /\ Open(r)
    /\ \E p \in UnknownToolCalls({"1"}) : Request(p)

AdvanceRound(r, ids) ==
    /\ Open(r)
    /\ \E p \in PlainPayloads({"game/advance_round"}, ids) : Request(p)

UnknownMethod(r) ==
    /\ Open(r)
    /\ \E p \in PlainPayloads({"no/such_method"}, Ids) : Request(p)

\* every operation, as two players and an administrator call them, well
\* formed or not
Next ==
    \/ Notification(MaxRound)
    \/ Initialize(MaxRound)
    \/ ToolsList(MaxRound)
    \/ RegisterPlayer(MaxRound, OrMissing(Names2))
    \/ GetStatus(MaxRound, OrMissing(Tokens2))
    \/ SendMessage(MaxRound, OrMissing(Tokens2), OrMissing(Names2),
                   OrMissing(Texts), MaxMessagesAll)
    \/ RegisterSupport(MaxRound, OrMissing(Tokens2), OrMissing(Names2))
    \/ UnknownTool(MaxRound)
    \/ AdvanceRound(MaxRound, Ids)
    \/ UnknownMethod(MaxRound)

Spec == Init /\ [][Next]_vars

\* registration, support and round resolution among three players
NextScoring ==
    \/ RegisterPlayer(MaxScoringRound, Names)
    \/ RegisterSupport(MaxScoringRound, Tokens3, Names)
    \/ AdvanceRound(MaxScoringRound, {"1"})

SpecScoring == Init /\ [][NextScoring]_vars

\* registration, messages, status and round advance between two players
NextMessages ==
    \/ RegisterPlayer(MaxRound, Names2)
    \/ GetStatus(MaxRound, Tokens2)
    \/ SendMessage(MaxRound, Tokens2, Names2, OrMissing(Texts),
                   MaxMessages)
    \/ AdvanceRound(MaxRound, {"1"})

SpecMessages == Init /\ [][NextMessages]_vars

\* two players whose messages may hold a text that cannot be rendered
NextEncoding ==
    \/ RegisterPlayer(MaxScoringRound, Names2)
    \/ GetStatus(MaxScoringRound, Tokens2)
    \/ SendMessage(MaxScoringRound, Tokens2, Names2, AnyTexts,
                   MaxMessagesAll)
    \/ RegisterSupport(MaxScoringRound, Tokens2, Names2)
    \/ AdvanceRound(MaxScoringRound, {"1"})

SpecEncoding == Init /\ [][NextEncoding]_vars

\* the requests sent while others are in flight
ConcurrentPayloads ==
    RegisterPlayerCalls({"1"}, Names2)
    \cup RegisterSupportCalls({"1"}, {"u1"}, {"B"})
    \cup RegisterSupportCalls({"1"}, {"u2"}, {"A"})
    \cup SendMessageCalls({"1"}, {"u1"}, {"B"}, Texts)
    \cup PlainPayloads({"game/advance_round"}, {"1"})

\* the connections whose request in flight is a send_message
Sending ==
    {c \in Connections :
        in_flight[c] # <<>> /\ in_flight[c][1].params.name = "send_message"}

\* the server accepts a request on an idle connection: mcp_endpoint is
\* called and suspends at await request.json() before it has read or
\* written game_state
Accept(r, c) ==
    /\ Open(r)
    /\ in_flight[c] = <<>>
    /\ \E p \in ConcurrentPayloads :
          /\ p.params.name = "send_message" =>
                Len(messages) + Cardinality(Sending) < MaxMessagesAll
          /\ in_flight' = [in_flight EXCEPT ![c] = <<p>>]
    /\ UNCHANGED <<players_by_name, players_by_private, current_round,
                   current_supports, messages>>

\* as a handler would resume if it awaited once more inside advance_round,
\* after the scores and before the round counter is written
Resume_yielding(c) ==
    /\ in_flight[c] # <<>>
    /\ LET gs == mcp_endpoint(GS, in_flight[c][1]).gs
       IN Becomes([gs EXCEPT !.current_round = current_round])
    /\ in_flight' = [in_flight EXCEPT ![c] = <<>>]

\* the event loop resumes the call on connection c with its payload: the
\* handler runs to its return without another await
Resume(c) ==
    /\ in_flight[c] # <<>>
    /\ Becomes(mcp_endpoint(GS, in_flight[c][1]).gs)
    /\ in_flight' = [in_flight EXCEPT ![c] = <<>>]

\* two players and an administrator whose requests are accepted
\* concurrently
NextConcurrent ==
    \/ \E c \in Connections : Accept(MaxScoringRound, c)
    \/ \E c \in Connections : Resume(c)

SpecConcurrent == Init /\ [][NextConcurrent]_vars

(* ------------------------- round resolution --------------------------- *)

\* the state game/advance_round leaves when it is called now
AfterAdvance == mcp_endpoint(GS, Plain("game/advance_round", "1")).gs

Score(gs, name) == PlayerByName(gs, name).score

\* the ledger as the claims read it: whom name supports (None: nobody)
TargetOf(name) == SupportGet(current_supports, name)
SupportersIn(name) ==
    {s \in SupportKeys(current_supports) : TargetOf(s) = name}
IsMutual(name) ==
    TargetOf(name) # None /\ TargetOf(TargetOf(name)) = name

\* the score change the four rules promise name, read off the ledger as it
\* stands when the advance starts
RuleDelta(name) ==
    Cardinality(SupportersIn(name))
    + (IF IsMutual(name) THEN 2 ELSE 0)
    - (IF TargetOf(name) # None /\ ~IsMutual(name) THEN 1 ELSE 0)
    - (IF TargetOf(name) = None THEN 1 ELSE 0)

\* the registered players are exactly x, y and z, all at score 0
ThreeAtZero(x, y, z) ==
    /\ Cardinality({x, y, z}) = 3
    /\ PlayerNames(GS) = {x, y, z}
    /\ \A n \in {x, y, z} : Score(GS, n) = 0

Entry(s, t) == [supporter |-> s, target |-> t]

\* C1: game/advance_round changes every registered player's score by the
\* number of ledger entries naming the player, plus 2 if the player and the
\* player's target support each other, minus 1 if the player's target does
\* not support the player back, minus 1 if the player has no entry, all read
\* off the ledger as it stands when the advance starts.  From scores 0,
\* x->y, y->x with z abstaining gives 3, 3, -1, and x->y, y->z with z
\* abstaining gives -1, 0, 0.
C1_AdvanceDelta ==
    LET after == AfterAdvance
    IN /\ PlayerNames(after) = PlayerNames(GS)
       /\ \A n \in PlayerNames(GS) :
             Score(after, n) = Score(GS, n) + RuleDelta(n)
       /\ \A x, y, z \in Names :
             ThreeAtZero(x, y, z) =>
                /\ SetOf(current_supports) = {Entry(x, y), Entry(y, x)} =>
                      /\ Score(after, x) = 3
                      /\ Score(after, y) = 3
                      /\ Score(after, z) = -1
                /\ SetOf(current_supports) = {Entry(x, y), Entry(y, z)} =>
                      /\ Score(after, x) = -1
                      /\ Score(after, y) = 0
                      /\ Score(after, z) = 0

\* the second scenario of C1 has been resolved: round 2 starts with x, who
\* supported y, at -1, y, who supported z, at 0, and z, who abstained, at 0
C1_Witness ==
    /\ current_round = 2
    /\ \E x, y, z \in PlayerNames(GS) :
          /\ Cardinality({x, y, z}) = 3
          /\ Score(GS, x) = -1
          /\ Score(GS, y) = 0
          /\ Score(GS, z) = 0
          /\ PlayerByName(GS, x).supported_you_last_round = {}
          /\ PlayerByName(GS, y).supported_you_last_round = {x}
          /\ PlayerByName(GS, z).supported_you_last_round = {y}

\* C2: at round resolution a pair that supports each other is counted
\* once: the mutual bonus rule adds exactly 2 to each member of a mutual
\* pair (and nothing to anyone else), the unreciprocated penalty rule takes
\* nothing from a member, and over the whole advance a member gains its
\* supporters plus 2.
C2_MutualOnce ==
    LET supports == current_supports
        p1 == supports_received(GS, supports)
        p2 == mutual_bonus(p1, supports)
        p3 == unreciprocated_penalty(p2, supports)
        after == AfterAdvance
    IN \A i \in 1..Len(players_by_name) :
          LET n == players_by_name[i].name
          IN /\ p1[i].name = n /\ p2[i].name = n /\ p3[i].name = n
             /\ p2[i].score - p1[i].score = (IF IsMutual(n) THEN 2 ELSE 0)
             /\ IsMutual(n) =>
                   /\ p3[i].score = p2[i].score
                   /\ Score(after, n) =
                         Score(GS, n) + Cardinality(SupportersIn(n)) + 2

\* a mutual pair has been resolved: two players hold each other as last
\* round's only supporter and stand at 3, next to a third player
C2_Witness ==
    /\ current_round = 2
    /\ \E x, y, z \in PlayerNames(GS) :
          /\ Cardinality({x, y, z}) = 3
          /\ PlayerByName(GS, x).supported_you_last_round = {y}
          /\ PlayerByName(GS, y).supported_you_last_round = {x}
          /\ Score(GS, x) = 3
          /\ Score(GS, y) = 3

\* C3: when game/advance_round runs with an empty ledger, every registered
\* player's score falls by exactly 1 (whatever it was, and for no players
\* at all too), the ledger is empty afterwards and the round counter is one
\* higher.
C3_EmptyLedgerAdvance ==
    current_supports = <<>> =>
        LET after == AfterAdvance
        IN /\ PlayerNames(after) = PlayerNames(GS)
           /\ \A n \in PlayerNames(GS) : Score(after, n) = Score(GS, n) - 1
           /\ after.current_supports = <<>>
           /\ after.current_round = current_round + 1

\* an advance with an empty ledger has been made over three players: all
\* stand at -1 with no supporter, the ledger is empty and the round is 2
C3_Witness ==
    /\ current_round = 2
    /\ current_supports = <<>>
    /\ Len(players_by_name) = 3
    /\ \A n \in PlayerNames(GS) :
          /\ Score(GS, n) = -1
          /\ PlayerByName(GS, n).supported_you_last_round = {}

(* --------------------------- support ledger --------------------------- *)

\* the state and the response a register_support call comes to now
SupportCall(private_id, player_to_support) ==
    mcp_endpoint(GS, Call("1", "register_support",
                          [NoArguments EXCEPT !.private_id = private_id,
                               !.player_to_support = player_to_support]))

\* the response is a tools/call result with isError as given
IsToolResult(response, isError) ==
    /\ response.status_code = 200
    /\ "result" \in DOMAIN response.content
    /\ response.content.result.isError = isError

\* C4: the ledger holds at most one entry per supporter and the last
\* write wins.  Whenever the ledger of the round holds s -> x (whatever
\* was called since s cast it) and s then supports another player y, the
\* call succeeds, s has the single entry s -> y and everyone else's entry
\* is as before; at the advance that follows s is counted as a supporter
\* of y and not of x, and s is rewarded or penalised for y alone: +2 if y
\* supports s, -1 if not.
C4_LastWriteWins ==
    /\ Len(current_supports) = Cardinality(SupportKeys(current_supports))
    /\ \A i \in 1..Len(current_supports) :
          LET s == current_supports[i].supporter
              x == current_supports[i].target
          IN \A y \in PlayerNames(GS) \ {s, x} :
                LET h == SupportCall(PlayerByName(GS, s).private_id, y)
                    resolved == advance_round(h.gs).gs
                IN /\ IsToolResult(h.response, FALSE)
                   /\ h.gs.current_supports =
                         [current_supports EXCEPT ![i] = Entry(s, y)]
                   /\ s \in PlayerByName(resolved, y).supported_you_last_round
                   /\ s \notin PlayerByName(resolved, x).supported_you_last_round
                   /\ Score(resolved, s) =
                         Score(GS, s) + Cardinality(SupportersIn(s))
                         + (IF TargetOf(y) = s THEN 2 ELSE -1)

\* three players are registered and the ledger holds s -> x ahead of
\* y -> s: s, who cast the first vote of the round, supports x and is one
\* call away from moving that support to y
C4_Witness ==
    /\ Len(players_by_name) = 3
    /\ Len(current_supports) = 2
    /\ current_supports[2].target = current_supports[1].supporter
    /\ current_supports[1].target # current_supports[2].supporter

\* C5: register_support with the caller's own name as target fails, in
\* every state and whether or not the caller holds a ledger entry, and
\* leaves the ledger (and everything else) as it was.
C5_SelfSupportFails ==
    \A i \in 1..Len(players_by_name) :
        LET me == players_by_name[i]
            h == SupportCall(me.private_id, me.name)
        IN /\ IsToolResult(h.response, TRUE)
           /\ h.gs = GS
           /\ SupportGet(h.gs.current_supports, me.name) = TargetOf(me.name)

\* self-support is refused to a player who holds an entry and to one who
\* holds none: one player of two has cast a support
C5_Witness ==
    /\ Len(players_by_name) >= 2
    /\ \E a, b \in PlayerNames(GS) :
          /\ TargetOf(a) = b
          /\ TargetOf(b) = None

(* ------------------------------ registry ------------------------------ *)

\* the state and the response a register_player call comes to now
RegisterCall(player_name) ==
    mcp_endpoint(GS, Call("1", "register_player",
                          [NoArguments EXCEPT !.player_name = player_name]))

\* the state and the response a get_status call comes to in gs
StatusCall(gs, private_id) ==
    mcp_endpoint(gs, Call("1", "get_status",
                          [NoArguments EXCEPT !.private_id = private_id]))

\* the status a successful tools/call response carries
StatusIn(response) == response.content.result.content[1].json

\* get_status(private_id) now answers with the status of the player name
ResolvesTo(gs, private_id, name) ==
    LET h == StatusCall(gs, private_id)
    IN /\ IsToolResult(h.response, FALSE)
       /\ StatusIn(h.response).player_name = name
       /\ StatusIn(h.response).private_id = private_id

\* registering a name that is not registered succeeds, and the token in
\* the status returned resolves to that name
RegistrationIssuesToken ==
    \A n \in Names2 \ PlayerNames(GS) :
        LET h == RegisterCall(n)
        IN /\ IsToolResult(h.response, FALSE)
           /\ StatusIn(h.response).player_name = n
           /\ ResolvesTo(h.gs, StatusIn(h.response).private_id, n)

\* the token of every registered player resolves to that player
TokensResolve ==
    \A i \in 1..Len(players_by_name) :
        ResolvesTo(GS, players_by_name[i].private_id, players_by_name[i].name)

\* a step keeps every registered player, under the same name and token
TokensKept ==
    \A i \in 1..Len(players_by_name) :
        /\ i <= Len(players_by_name')
        /\ players_by_name'[i].name = players_by_name[i].name
        /\ players_by_name'[i].private_id = players_by_name[i].private_id

\* C6: for every name not yet registered, register_player succeeds and
\* returns a token; every player keeps the token it was given through
\* every later step, and in every later state get_status with that token
\* answers with the status of the player of that name.
C6_TokenResolves ==
    /\ [](RegistrationIssuesToken /\ TokensResolve)
    /\ [][TokensKept]_vars

\* both players are registered and a round has been resolved since: the
\* first token issued still belongs to the first player
C6_Witness ==
    /\ Len(players_by_name) = 2
    /\ current_round > 1
    /\ players_by_name[1].private_id = "u1"
    /\ players_by_private["u1"] = players_by_name[1].name
    /\ players_by_private["u2"] = players_by_name[2].name
    /\ Len(messages) > 0

\* C7: register_player with a name that is already registered fails, in
\* every round, and changes nothing: no token is issued, the player's token
\* resolves as before, and score and supporters-last-round are untouched.
C7_DuplicateNameFails ==
    \A i \in 1..Len(players_by_name) :
        LET h == RegisterCall(players_by_name[i].name)
        IN /\ IsToolResult(h.response, TRUE)
           /\ h.gs = GS
           /\ DOMAIN h.gs.players_by_private = DOMAIN players_by_private
           /\ h.gs.players_by_name[i] = players_by_name[i]
           /\ ResolvesTo(h.gs, players_by_name[i].private_id,
                         players_by_name[i].name)

\* a name registered in round 1 is refused in round 3, where its player
\* has a score and a supporter from the round before
C7_Witness ==
    /\ current_round = 3
    /\ \E i \in 1..Len(players_by_name) :
          /\ players_by_name[i].score # 0
          /\ players_by_name[i].supported_you_last_round # {}

(* ----------------------------- message log ---------------------------- *)

\* s is a prefix of t
IsPrefix(s, t) == Len(s) <= Len(t) /\ \A i \in 1..Len(s) : s[i] = t[i]

\* the messages sent to name while the counter had its present value, in
\* the order they were sent, as a status shows them
SentThisRound(name) ==
    LET mine == SelectSeq(messages,
                    LAMBDA m : m.to_player = name
                               /\ m.round_number = current_round)
    IN [i \in 1..Len(mine) |->
           [from |-> mine[i].from_player, message |-> mine[i].message]]

\* every player's status response lists exactly the messages tagged with
\* the present round and addressed to the player, in log order
StatusShowsRoundMail ==
    \A i \in 1..Len(players_by_name) :
        LET h == StatusCall(GS, players_by_name[i].private_id)
        IN /\ IsToolResult(h.response, FALSE)
           /\ StatusIn(h.response).messages_received_this_round =
                 SentThisRound(players_by_name[i].name)

\* no request removes or alters a logged message
NoRequestRewritesLog ==
    \A p \in Payloads(Names2, Tokens2) :
        IsPrefix(messages, mcp_endpoint(GS, p).gs.messages)

\* a step leaves the log alone or appends one message tagged with the
\* round in which it is sent
LogGrowsByRoundTaggedMessage ==
    /\ IsPrefix(messages, messages')
    /\ Len(messages') <= Len(messages) + 1
    /\ Len(messages') = Len(messages) + 1 =>
          /\ messages'[Len(messages')].round_number = current_round
          /\ current_round' = current_round

\* C8: a message is tagged with the value N the round counter has when it
\* is sent; it is listed, in send order, in the recipient's status
\* responses exactly while the counter is N, so in none once the counter
\* has advanced; and no operation removes it from the log or alters it.
C8_RoundScopedMessages ==
    /\ [](StatusShowsRoundMail /\ NoRequestRewritesLog)
    /\ [][LogGrowsByRoundTaggedMessage]_vars

\* two messages were sent to one player by different senders in round 1
\* and the round has advanced: both are in the log and in no status
C8_Witness ==
    /\ current_round = 2
    /\ Len(messages) = 2
    /\ messages[1].round_number = 1
    /\ messages[2].round_number = 1
    /\ messages[1].to_player = messages[2].to_player
    /\ messages[1].from_player # messages[2].from_player
    /\ SentThisRound(messages[1].to_player) = <<>>

(* ---------------------------- round counter --------------------------- *)

\* the methods under which mcp_endpoint reaches game/advance_round
Advances(p) == p.method = "game/advance_round"

\* game/advance_round raises the counter by 1 and no other request
\* changes it
OnlyAdvanceMovesRound ==
    \A p \in Payloads(Names2, Tokens2) :
        mcp_endpoint(GS, p).gs.current_round =
            IF Advances(p) THEN current_round + 1 ELSE current_round

\* C9: the round counter starts at 1, every game/advance_round raises it
\* by exactly 1, no other request (tool call, handshake, discovery,
\* notification, rejected request) changes it, and no step lowers it.
C9_RoundCounter ==
    /\ current_round = 1
    /\ [](current_round >= 1 /\ OnlyAdvanceMovesRound)
    /\ [][current_round' \in {current_round, current_round + 1}]_vars

\* the counter has been advanced twice
C9_Witness == current_round = 3 /\ Len(players_by_name) = 2

(* --------------------------- domain failures -------------------------- *)

IssuedTokens == {players_by_name[i].private_id : i \in 1..Len(players_by_name)}

\* the player a token was issued to
Holder(private_id) ==
    (CHOOSE i \in 1..Len(players_by_name) :
        players_by_name[i].private_id = private_id)

\* the tools/call payload p, naming a catalog tool, fails at domain level:
\* a required argument is missing, the name is taken, the token is
\* unknown, the recipient or target is unknown, or the target is the caller
DomainFailure(p) ==
    LET a == p.params.arguments
        NoCaller == a.private_id = Missing \/ a.private_id \notin IssuedTokens
        Unknown(n) == n = Missing \/ n \notin PlayerNames(GS)
    IN CASE p.params.name = "register_player" ->
               a.player_name = Missing \/ a.player_name \in PlayerNames(GS)
         [] p.params.name = "get_status" -> NoCaller
         [] p.params.name = "send_message" ->
               NoCaller \/ Unknown(a.recipient_player_name)
               \/ a.message = Missing
         [] p.params.name = "register_support" ->
               \/ NoCaller
               \/ Unknown(a.player_to_support)
               \/ players_by_name[Holder(a.private_id)].name
                     = a.player_to_support

\* the response is a successful RPC response carrying an error flag and a
\* message, and no error object
IsErrorResult(response) ==
    /\ response.status_code = 200
    /\ "result" \in DOMAIN response.content
    /\ "error" \notin DOMAIN response.content
    /\ response.content.result.isError = TRUE
    /\ Len(response.content.result.content) >= 1
    /\ response.content.result.content[1].type = "text"

\* C10: every domain-level failure of a tools/call naming a catalog tool
\* (duplicate name, unknown token, unknown target or recipient,
\* self-support, missing required argument) is answered with a result
\* whose payload has isError = TRUE and a message, never with an error
\* object.
C10_DomainFailureIsResult ==
    \A p \in ToolCalls(Names2, Tokens2) :
        DomainFailure(p) => IsErrorResult(mcp_endpoint(GS, p).response)

\* one name is registered and one is not, in round 2 with a message in
\* the log: a duplicate name, an unknown token, an unknown recipient or
\* target, a self-support and a missing argument can each be sent
C10_Witness ==
    /\ Len(players_by_name) = 1
    /\ current_round = 2
    /\ Len(messages) = 1

(* --------------------------- protocol errors -------------------------- *)

\* the methods mcp_endpoint has a branch for
KnownMethods ==
    {"initialize", "tools/list", "tools/call", "game/advance_round"}

\* the payload is taken as a notification: no id, a notifications/ method
IsNotification(p) == p.id = None /\ IsNotificationMethod(p.method)

\* the payload names a method that is not known (a payload without a
\* method counts when it has an id: the handler reads its method as None)
NamesUnknownMethod(p) ==
    /\ p.method \notin KnownMethods
    /\ ~IsNotification(p)
    /\ ~(p.id = None /\ p.method = None)

\* the payload is a tools/call naming a tool that is not in the catalog
NamesUnknownTool(p) == p.method = "tools/call" /\ p.params.name \notin ToolNames

\* the response carries an error object with the code, and no result
IsErrorObject(response, code) ==
    /\ response.status_code = 200
    /\ "error" \in DOMAIN response.content
    /\ "result" \notin DOMAIN response.content
    /\ response.content.error.code = code
    /\ DOMAIN response.content.error = {"code", "message"}

\* C11: a response carries an error object (a numeric code and a message)
\* exactly when the request names an unknown method (code -32601) or is a
\* tools/call naming a tool outside the catalog (code -32602), whatever
\* arguments it carries, and such a request changes no game state.  (A
\* payload with neither id nor method is answered by no branch: the
\* handler raises on it, and it gets no error object.)
C11_ProtocolErrors ==
    \A p \in Payloads(Names2, Tokens2) :
        LET h == mcp_endpoint(GS, p)
        IN /\ NamesUnknownMethod(p) => IsErrorObject(h.response, -32601)
           /\ NamesUnknownTool(p) => IsErrorObject(h.response, -32602)
           /\ (h.response.status_code = 200
               /\ "error" \in DOMAIN h.response.content) =>
                 /\ NamesUnknownMethod(p) \/ NamesUnknownTool(p)
                 /\ h.gs = GS

\* an unknown method or tool can be sent where there is state to lose: two
\* players, a ledger entry and a message, in round 2
C11_Witness ==
    /\ Len(players_by_name) = 2
    /\ current_round = 2
    /\ Len(current_supports) = 1
    /\ Len(messages) = 1

(* --------------------------- failing requests ------------------------- *)

\* the response reports a failure: a tools/call result with isError = TRUE
\* or an error object
IsFailure(response) ==
    /\ response.status_code = 200
    /\ \/ "error" \in DOMAIN response.content
       \/ /\ "result" \in DOMAIN response.content
          /\ "isError" \in DOMAIN response.content.result
          /\ response.content.result.isError = TRUE

\* C12: whenever a request ends in an error result (isError = TRUE) or in
\* an error object, the registry (name and token maps), the ledger, the
\* message log, every score and the round counter are as they were before
\* the request.
C12_FailureChangesNothing ==
    \A p \in Payloads(Names2, Tokens2)
             \cup SendMessageCalls({"1"}, Tokens2, Names2, AnyTexts) :
        LET h == mcp_endpoint(GS, p)
        IN IsFailure(h.response) => h.gs = GS

(* ------------------------- concurrent requests ------------------------ *)

\* the step is the whole handling of one request in flight, from the game
\* state as it stands to the game state the handler leaves
OneWholeHandler ==
    \E c \in Connections :
        /\ in_flight[c] # <<>>
        /\ in_flight' = [in_flight EXCEPT ![c] = <<>>]
        /\ GS' = mcp_endpoint(GS, in_flight[c][1]).gs

\* the step changes no game state
GameStateKept ==
    UNCHANGED <<players_by_name, players_by_private, current_round,
                current_supports, messages>>

\* a step that moves the round counter is a whole resolution of the ledger
\* as it stands before the step
AdvanceScoresSnapshot ==
    current_round' # current_round =>
        /\ current_round' = current_round + 1
        /\ current_supports' = <<>>
        /\ \A n \in PlayerNames(GS) :
              /\ Score(GS', n) = Score(GS, n) + RuleDelta(n)
              /\ PlayerByName(GS', n).supported_you_last_round =
                    SupportersIn(n)

\* a step that writes a ledger entry or logs a message stays within the
\* round: the entry's supporter and target, and the message's sender and
\* recipient, are registered in the state the step starts from, and the
\* message is tagged with that state's round
NoRoundStraddled ==
    /\ Len(messages') > Len(messages) =>
          LET m == messages'[Len(messages')]
          IN /\ current_round' = current_round
             /\ m.round_number = current_round
             /\ {m.from_player, m.to_player} \subseteq PlayerNames(GS)
    /\ current_supports' \notin {current_supports, <<>>} =>
          /\ current_round' = current_round
          /\ \A i \in 1..Len(current_supports') :
                {current_supports'[i].supporter, current_supports'[i].target}
                    \subseteq PlayerNames(GS)

\* C13: with several requests accepted and not yet handled, every change
\* of the registry, the log, the ledger and the round counter is the whole
\* handling of one of them, applied to the state as it stands: an advance
\* scores the ledger of the state it starts from and clears it in the same
\* step, and a register_support or send_message is validated, written and
\* (for a message) tagged within one round.
C13_Serialized ==
    [][/\ OneWholeHandler \/ GameStateKept
       /\ AdvanceScoresSnapshot
       /\ NoRoundStraddled]_vars

\* a register_support accepted in round 1 is still in flight in round 2:
\* the advance accepted next to it was handled first
C13_Witness ==
    /\ current_round = 2
    /\ Len(players_by_name) = 2
    /\ \E c \in Connections :
          /\ in_flight[c] # <<>>
          /\ in_flight[c][1].params.name = "register_support"

(* ---------------------------- result framing -------------------------- *)

\* the items of content of the given type
ItemsOf(content, type) ==
    {i \in 1..Len(content) : content[i].type = type}

\* the result holds a structured item and a textual item with the same
\* payload: the text, read as JSON, is the value of the structured item
HoldsPayloadTwice(result) ==
    \E i \in ItemsOf(result.content, "json") :
        \E j \in ItemsOf(result.content, "text") :
            json_loads(result.content[j].text) = result.content[i].json

\* the response to a tools/call naming a catalog tool is a result with a
\* content list and a boolean isError
IsFramedResult(response) ==
    /\ response.status_code = 200
    /\ "result" \in DOMAIN response.content
    /\ DOMAIN response.content.result = {"content", "isError"}
    /\ response.content.result.isError \in BOOLEAN
    /\ Len(response.content.result.content) >= 1

\* C14 as stated: every tools/call result, of a success or of a failure,
\* holds a structured item and a textual item with the identical payload,
\* and a boolean isError.
C14_EveryResultTwice ==
    \A p \in ToolCalls(Names2, Tokens2) :
        LET response == mcp_endpoint(GS, p).response
        IN /\ IsFramedResult(response)
           /\ HoldsPayloadTwice(response.content.result)

\* C14: every tools/call result carries a content list and a boolean
\* isError.  The result of a success (isError FALSE) holds one structured
\* item and one textual item whose text, read as JSON, is the structured
\* item's value; the result of a failure (isError TRUE) holds a single
\* textual item, the error message, and no structured item.
C14_ResultFraming ==
    \A p \in ToolCalls(Names2, Tokens2) :
        LET response == mcp_endpoint(GS, p).response
            result == response.content.result
        IN /\ IsFramedResult(response)
           /\ result.isError = DomainFailure(p)
           /\ ~result.isError =>
                 /\ Len(result.content) = 2
                 /\ result.content[1].type = "json"
                 /\ result.content[2].type = "text"
                 /\ json_loads(result.content[2].text) = result.content[1].json
           /\ result.isError =>
                 /\ Len(result.content) = 1
                 /\ result.content[1].type = "text"
                 /\ DOMAIN result.content[1] = {"type", "text"}

\* a status with another player and two messages is returned, next to
\* calls that fail: both players are registered and one has two messages
\* of this round
C14_Witness ==
    /\ Len(players_by_name) = 2
    /\ current_round = 2
    /\ \E n \in PlayerNames(GS) : Len(SentThisRound(n)) = 2

(* ----------------------------- notifications -------------------------- *)

\* requests without an id whose method is under notifications/: without
\* params, and with params that would register a player or cast a support
\* if they were dispatched
NotificationPayloads ==
    {[method |-> m, id |-> None, params |-> q] :
        m \in NotificationMethods,
        q \in {Plain(None, None).params,
               Call(None, "register_player",
                    [NoArguments EXCEPT !.player_name = "B"]).params,
               Call(None, "register_support",
                    [NoArguments EXCEPT !.private_id = "u1",
                                        !.player_to_support = "B"]).params}}

\* C15: a request that has no id and whose method is under notifications/
\* is answered with status 204 and no content, so with neither a result
\* nor an error body, whatever params it carries, and the game state is as
\* before.
C15_NotificationAcknowledged ==
    \A p \in NotificationPayloads :
        LET h == mcp_endpoint(GS, p)
        IN /\ IsNotification(p)
           /\ h.response = JSONResponse(204, None)
           /\ h.gs = GS

\* a notification arrives where its params could take effect: A holds
\* token u1, B is not registered yet or is registered and unsupported
C15_Witness ==
    /\ Len(players_by_name) >= 1
    /\ players_by_name[1].private_id = "u1"
    /\ players_by_name[1].name = "A"
    /\ TargetOf("A") = None
    /\ current_round = 2

(* ------------------------- rules 1 and 4 together --------------------- *)

\* what rule 1 adds to the score of each player (in dict order) at a
\* resolution of the ledger as it stands, and what rule 4 then takes
Rule1Gain ==
    LET p1 == supports_received(GS, current_supports)
    IN [i \in 1..Len(players_by_name) |->
           p1[i].score - players_by_name[i].score]
Rule4Loss ==
    LET p3 == unreciprocated_penalty(
                  mutual_bonus(supports_received(GS, current_supports),
                               current_supports),
                  current_supports)
        p4 == no_support_penalty(p3, current_supports)
    IN [i \in 1..Len(players_by_name) |-> p3[i].score - p4[i].score]

\* C16 as stated: in a resolution no player both gains from rule 1 and
\* loses from rule 4.
C16_NoGainWithAbstention ==
    LET gain == Rule1Gain
        loss == Rule4Loss
    IN \A i \in 1..Len(players_by_name) : ~(gain[i] >= 1 /\ loss[i] >= 1)

\* C16: in a resolution rule 4 takes exactly 1 from every player without a
\* ledger entry and nothing from a player with one, whether or not the
\* player gains from rule 1: a player who abstains and is supported by k
\* players both gains k from rule 1 and loses 1 from rule 4, and ends the
\* resolution k - 1 higher.
C16_AbstentionWhateverSupport ==
    LET after == AfterAdvance
        gain == Rule1Gain
        loss == Rule4Loss
    IN \A i \in 1..Len(players_by_name) :
          LET n == players_by_name[i].name
          IN /\ gain[i] = Cardinality(SupportersIn(n))
             /\ loss[i] = (IF TargetOf(n) = None THEN 1 ELSE 0)
             /\ TargetOf(n) = None =>
                   Score(after, n) =
                       Score(GS, n) + Cardinality(SupportersIn(n)) - 1

\* a player who abstained while the two others supported it has been
\* resolved: it stands at 2 - 1 = 1 and they, unreciprocated, at -1
C16_Witness ==
    /\ current_round = 2
    /\ \E x, y, z \in PlayerNames(GS) :
          /\ Cardinality({x, y, z}) = 3
          /\ PlayerByName(GS, z).supported_you_last_round = {x, y}
          /\ Score(GS, z) = 1
          /\ Score(GS, x) = -1
          /\ Score(GS, y) = -1

(* ------------------------------ scoreboard ---------------------------- *)

\* the state and the response game/advance_round comes to now
AdvanceCall == mcp_endpoint(GS, Plain("game/advance_round", "1"))

\* C17: the scoreboard returned by game/advance_round names the round it
\* resolved and has exactly one row per registered player, in ascending
\* order of the names; each row carries the player's score after the
\* round's deltas, the target the player supported in the resolved round
\* (None for a player who abstained) and, without repetition, exactly the
\* supporters whose ledger target was the player.
C17_Scoreboard ==
    LET h == AdvanceCall
        scoreboard == h.response.content.result
        scores == scoreboard.scores
    IN /\ h.response.status_code = 200
       /\ scoreboard.round_number = current_round
       /\ Len(scores) = Len(players_by_name)
       /\ {scores[i].player_name : i \in 1..Len(scores)} = PlayerNames(GS)
       /\ \A i, j \in 1..Len(scores) :
             i < j => str_lt(scores[i].player_name, scores[j].player_name)
       /\ \A i \in 1..Len(scores) :
             LET n == scores[i].player_name
             IN /\ scores[i].score = Score(h.gs, n)
                /\ scores[i].score = Score(GS, n) + RuleDelta(n)
                /\ scores[i].supported = TargetOf(n)
                /\ SetOf(scores[i].supporters_this_round) = SupportersIn(n)
                /\ Len(scores[i].supporters_this_round) =
                      Cardinality(SupportersIn(n))

\* a scoreboard has been returned for three players registered in
\* descending order of their names, one of whom was supported
C17_Witness ==
    /\ current_round = 2
    /\ Len(players_by_name) = 3
    /\ players_by_name[1].name = "B"
    /\ players_by_name[2].name = "AB"
    /\ players_by_name[3].name = "A"
    /\ \E i \in 1..3 : players_by_name[i].supported_you_last_round # {}

(* ----------------------- supporters of last round --------------------- *)

\* in gs, the status of every player P lists every other player once, and
\* flags X exactly when X is in flagged[P]
StatusFlags(gs, flagged) ==
    \A i \in 1..Len(gs.players_by_name) :
        LET P == gs.players_by_name[i]
            h == StatusCall(gs, P.private_id)
            others == StatusIn(h.response).other_players
        IN /\ IsToolResult(h.response, FALSE)
           /\ Len(others) = Len(gs.players_by_name) - 1
           /\ {others[j].player_name : j \in 1..Len(others)} =
                 PlayerNames(gs) \ {P.name}
           /\ \A j \in 1..Len(others) :
                 others[j].supported_you_last_round =
                     (others[j].player_name \in flagged[P.name])

\* an advance made now leaves every player with exactly the supporters the
\* ledger holds for it now, whatever the player's set was before, and the
\* statuses that follow flag exactly those supporters
LastRoundIsResolvedRound ==
    LET after == AfterAdvance
        resolved == [n \in PlayerNames(GS) |-> SupportersIn(n)]
    IN /\ \A n \in PlayerNames(GS) :
             PlayerByName(after, n).supported_you_last_round = resolved[n]
       /\ StatusFlags(after, resolved)

\* the statuses of the present state flag exactly the members of the sets
\* the players hold
FlagsFollowSets ==
    StatusFlags(GS, [n \in PlayerNames(GS) |->
                        PlayerByName(GS, n).supported_you_last_round])

\* a step that does not move the round counter leaves every player's set
\* as it was, and gives a player it registers an empty set
SetsKeptWithinRound ==
    current_round' = current_round =>
        /\ \A i \in 1..Len(players_by_name) :
              players_by_name'[i].supported_you_last_round =
                  players_by_name[i].supported_you_last_round
        /\ \A i \in (Len(players_by_name) + 1)..Len(players_by_name') :
              players_by_name'[i].supported_you_last_round = {}

\* C18: after every game/advance_round each player's supporters-last-round
\* set is exactly the set of players whose ledger target was that player
\* in the round just resolved (empty if there were none), whatever it held
\* before; no request other than an advance changes it; and in every
\* status for P the flag supported_you_last_round of another player X is
\* TRUE exactly when X supported P in the most recently resolved round.
C18_SupportersLastRound ==
    /\ [](LastRoundIsResolvedRound /\ FlagsFollowSets)
    /\ [][SetsKeptWithinRound]_vars

\* B supported A in round 1 and nobody supported anybody in round 2: in
\* round 3 A stands at -1 and B at -2, and A's set is empty again
C18_Witness ==
    /\ current_round = 3
    /\ PlayerNames(GS) = {"A", "B"}
    /\ Score(GS, "A") = -1
    /\ Score(GS, "B") = -2
    /\ PlayerByName(GS, "A").supported_you_last_round = {}

(* ---------------------------- ledger entries -------------------------- *)

\* C19: in every reachable state every ledger entry supporter -> target
\* has a registered supporter and a registered target, and the two differ.
C19_LedgerEntriesValid ==
    \A i \in 1..Len(current_supports) :
        /\ current_supports[i].supporter \in PlayerNames(GS)
        /\ current_supports[i].target \in PlayerNames(GS)
        /\ current_supports[i].supporter # current_supports[i].target

\* each of three players holds a ledger entry, written while supports of
\* oneself, of unregistered names and by unissued tokens were attempted
C19_Witness ==
    /\ Len(players_by_name) = 3
    /\ Len(current_supports) = 3

(* ------------------------- one resolution each ------------------------ *)

\* an advance made now leaves an empty ledger; a second advance made right
\* after it finds nothing of the first round's supports (everyone loses 1
\* as an abstainer and has no supporter); and a support accepted after the
\* first advance is the only entry of its ledger
ClearedByAdvance ==
    LET first == AfterAdvance
        second == advance_round(first).gs
    IN /\ first.current_round = current_round + 1
       /\ first.current_supports = <<>>
       /\ \A n \in PlayerNames(GS) :
             /\ Score(second, n) = Score(first, n) - 1
             /\ PlayerByName(second, n).supported_you_last_round = {}
       /\ \A i, j \in 1..Len(players_by_name) :
             i # j =>
                register_support(first, players_by_name[i].private_id,
                                 players_by_name[j].name).gs.current_supports
                    = <<Entry(players_by_name[i].name,
                              players_by_name[j].name)>>

\* a step that moves the round counter leaves an empty ledger
RoundStartsWithEmptyLedger ==
    current_round' # current_round => current_supports' = <<>>

\* C20: the advance to round N+1 clears the ledger of round N completely,
\* before any entry of round N+1 is accepted: a support recorded in round
\* N is scored in the resolution of round N and has no part in the
\* resolution of round N+1 unless it is cast again.
C20_LedgerClearedByAdvance ==
    /\ [](ClearedByAdvance)
    /\ [][RoundStartsWithEmptyLedger]_vars

\* all three players cast a support in round 1 and the round was resolved:
\* round 2 starts with an empty ledger and every player supported
C20_Witness ==
    /\ current_round = 2
    /\ current_supports = <<>>
    /\ Len(players_by_name) = 3
    /\ \A i \in 1..3 : players_by_name[i].supported_you_last_round # {}

(* -------------------------- order independence ------------------------ *)

\* the present state as the history would have left it that registered
\* the players in ascending order of their names and cast the supports in
\* ascending order of the supporters' names: the same players, scores and
\* supporter -> target mapping
InNameOrder ==
    LET names == sorted(PlayerNames(GS))
        supporters == sorted(SupportKeys(current_supports))
    IN [GS EXCEPT
           !.players_by_name =
               <<>> \o [i \in 1..Len(names) |-> PlayerByName(GS, names[i])],
           !.current_supports =
               <<>> \o [i \in 1..Len(supporters) |->
                           Entry(supporters[i], TargetOf(supporters[i]))]]

\* rule k of advance_round, applied to the Player objects as they stand
Rule(k, players) ==
    CASE k = 1 -> supports_received([GS EXCEPT !.players_by_name = players],
                                    current_supports)
      [] k = 2 -> mutual_bonus(players, current_supports)
      [] k = 3 -> unreciprocated_penalty(players, current_supports)
      [] k = 4 -> no_support_penalty(players, current_supports)

\* every rule commutes with the others: p_S is the Player objects after the
\* rules of the set S, applied in the order of the code; whichever rule k is
\* still missing from S, applying it next gives p_(S + k), the result of
\* applying the rules of S and k in the order of the code.  By induction on
\* the number of rules applied, the four rules give p_1234 in every one of
\* their 24 orders.
RulesCommute ==
    LET p0    == players_by_name
        p1    == Rule(1, p0)
        p2    == Rule(2, p0)
        p3    == Rule(3, p0)
        p4    == Rule(4, p0)
        p12   == Rule(2, p1)
        p13   == Rule(3, p1)
        p14   == Rule(4, p1)
        p23   == Rule(3, p2)
        p24   == Rule(4, p2)
        p34   == Rule(4, p3)
        p123  == Rule(3, p12)
        p124  == Rule(4, p12)
        p134  == Rule(4, p13)
        p234  == Rule(4, p23)
        p1234 == Rule(4, p123)
        after == AfterAdvance.players_by_name
    IN /\ Rule(1, p2) = p12
       /\ Rule(1, p3) = p13
       /\ Rule(2, p3) = p23
       /\ Rule(1, p4) = p14
       /\ Rule(2, p4) = p24
       /\ Rule(3, p4) = p34
       /\ Rule(2, p13) = p123
       /\ Rule(1, p23) = p123
       /\ Rule(2, p14) = p124
       /\ Rule(1, p24) = p124
       /\ Rule(3, p14) = p134
       /\ Rule(1, p34) = p134
       /\ Rule(3, p24) = p234
       /\ Rule(2, p34) = p234
       /\ Rule(3, p124) = p1234
       /\ Rule(2, p134) = p1234
       /\ Rule(1, p234) = p1234
       /\ \A i \in 1..Len(p0) :
             /\ p1234[i].name = p0[i].name
             /\ p1234[i].score = after[i].score

\* C21: the scores after game/advance_round depend only on the registered
\* players, their scores and the supporter -> target mapping: the advance
\* gives every player the score it gives in the state that holds the same
\* players and mapping in ascending order of the names, whatever the order
\* in which the players registered and the supports were cast, and the
\* score the four rules give when they are applied in any other order,
\* at every point of every history.
C21_OrderIndependent ==
    [](LET after == AfterAdvance
           ordered == advance_round(InNameOrder).gs
       IN /\ \A n \in PlayerNames(GS) : Score(after, n) = Score(ordered, n)
          /\ RulesCommute)

\* the players registered in descending order of their names and the
\* supports were cast in an order that is neither ascending nor the
\* players' own: a chain B -> AB, A -> B with AB abstaining
C21_Witness ==
    /\ current_round = 1
    /\ Len(players_by_name) = 3
    /\ players_by_name[1].name = "B"
    /\ players_by_name[2].name = "AB"
    /\ players_by_name[3].name = "A"
    /\ current_supports = <<Entry("B", "AB"), Entry("A", "B")>>

(* ------------------------ name map and token map ---------------------- *)

\* the tokens of the Player objects in players_by_name
TokensOfPlayers ==
    {players_by_name[i].private_id : i \in 1..Len(players_by_name)}

\* the two dicts hold the same players: no name and no token is held by two
\* Player objects, the keys of players_by_private are the tokens of the
\* players in players_by_name, and each token leads to the player that
\* carries it
MapsOneToOne ==
    /\ \A i, j \in 1..Len(players_by_name) :
          \/ i = j
          \/ /\ players_by_name[i].name # players_by_name[j].name
             /\ players_by_name[i].private_id # players_by_name[j].private_id
    /\ DOMAIN players_by_private = TokensOfPlayers
    /\ Cardinality(DOMAIN players_by_private) = Len(players_by_name)
    /\ \A i \in 1..Len(players_by_name) :
          players_by_private[players_by_name[i].private_id]
              = players_by_name[i].name

\* a step keeps every key of players_by_private, leading to the same player
TokenMapKept ==
    \A t \in DOMAIN players_by_private :
        /\ t \in DOMAIN players_by_private'
        /\ players_by_private'[t] = players_by_private[t]

\* C22: in every reachable state players_by_name and players_by_private
\* describe the same players one-to-one (one name and one token each, none
\* shared), and no step changes or removes the name or the token of a
\* registered player in either map.
C22_MapsOneToOne ==
    /\ []MapsOneToOne
    /\ [][TokensKept /\ TokenMapKept]_vars

\* B registered before A, and a round has been resolved with a support in
\* the ledger since: both maps still hold both players under their tokens
C22_Witness ==
    /\ Len(players_by_name) = 2
    /\ players_by_name[1].name = "B"
    /\ players_by_name[2].name = "A"
    /\ players_by_private = ("u1" :> "B") @@ ("u2" :> "A")
    /\ current_round = 2
    /\ current_supports # <<>>

(* ---------------------- scores outside the advance -------------------- *)

\* the payloads of every method but game/advance_round: the four tools,
\* well formed or not, unknown tools, initialize, tools/list, notifications
\* and unknown methods
NonAdvancePayloads ==
    {p \in Payloads(Names2, Tokens2) : p.method # "game/advance_round"}

\* the handler leaves the players of gs in after, each with the score and
\* the supporters-last-round set it had, and every player it added has
\* score 0 and an empty set
PlayersUntouched(gs, after) ==
    /\ Len(after.players_by_name) >= Len(gs.players_by_name)
    /\ \A i \in 1..Len(gs.players_by_name) :
          /\ after.players_by_name[i].name = gs.players_by_name[i].name
          /\ after.players_by_name[i].score = gs.players_by_name[i].score
          /\ after.players_by_name[i].supported_you_last_round =
                 gs.players_by_name[i].supported_you_last_round
    /\ \A i \in (Len(gs.players_by_name) + 1)..Len(after.players_by_name) :
          /\ after.players_by_name[i].score = 0
          /\ after.players_by_name[i].supported_you_last_round = {}

\* a step that changes a score or a supporters-last-round set, or adds a
\* player with a score, is an advance: it moves the round counter
ScoresMoveOnlyInAdvance ==
    current_round' = current_round =>
        PlayersUntouched(GS, [players_by_name |-> players_by_name'])

\* C23: no request other than game/advance_round (register_player,
\* get_status, send_message, register_support, succeeding or failing,
\* initialize, tools/list, and any other method) changes the score or the
\* supporters-last-round set of a registered player, in any reachable
\* state; a player that register_player adds starts at score 0; and every
\* step that changes a score is an advance.
C23_ScoresKeptByTools ==
    /\ [](\A p \in NonAdvancePayloads :
             PlayersUntouched(GS, mcp_endpoint(GS, p).gs))
    /\ [][ScoresMoveOnlyInAdvance]_vars

\* a second player has registered in round 2, beside a player whose score
\* comes from the round resolved, and a support has been cast since
C23_Witness ==
    /\ current_round = 2
    /\ Len(players_by_name) = 2
    /\ players_by_name[1].score # 0
    /\ players_by_name[2].score = 0
    /\ players_by_name[2].supported_you_last_round = {}
    /\ Len(current_supports) > 0

(* ------------------------- rules 3 and 4 together --------------------- *)

\* what rule 3 takes from the score of each player (in dict order) at a
\* resolution of the ledger as it stands
Rule3Loss ==
    LET p2 == mutual_bonus(supports_received(GS, current_supports),
                           current_supports)
        p3 == unreciprocated_penalty(p2, current_supports)
    IN [i \in 1..Len(players_by_name) |-> p2[i].score - p3[i].score]

\* the player supported someone who did not support them back
Unreciprocated(name) ==
    /\ TargetOf(name) # None
    /\ TargetOf(TargetOf(name)) # name

\* C24: in every resolution rule 3 and rule 4 each take 0 or 1 from a
\* player and never both take from the same player, so game/advance_round
\* lowers no score by more than 1; and a score it lowers by 1 belongs to a
\* player whom nobody supported and who either abstained or supported
\* someone who did not support them back.
C24_AtMostOnePenalty ==
    [](LET after == AfterAdvance.players_by_name
           loss3 == Rule3Loss
           loss4 == Rule4Loss
       IN \A i \in 1..Len(players_by_name) :
             LET n == players_by_name[i].name
                 drop == players_by_name[i].score - after[i].score
             IN /\ loss3[i] \in {0, 1}
                /\ loss4[i] \in {0, 1}
                /\ ~(loss3[i] = 1 /\ loss4[i] = 1)
                /\ drop <= 1
                /\ drop = 1 =>
                      /\ SupportersIn(n) = {}
                      /\ TargetOf(n) = None \/ Unreciprocated(n))

\* a chain x -> y -> z with z abstaining has been resolved: x, whom nobody
\* supported, lost 1 to rule 3; y and z each gained 1 and lost 1, to rule 3
\* and to rule 4
C24_Witness ==
    /\ current_round = 2
    /\ \E x, y, z \in PlayerNames(GS) :
          /\ Cardinality({x, y, z}) = 3
          /\ PlayerByName(GS, x).supported_you_last_round = {}
          /\ PlayerByName(GS, y).supported_you_last_round = {x}
          /\ PlayerByName(GS, z).supported_you_last_round = {y}
          /\ Score(GS, x) = -1
          /\ Score(GS, y) = 0
          /\ Score(GS, z) = 0

(* --------------------- what a caller learns of others ----------------- *)

\* another value for the token t, left alone when t is in keep (and when it
\* stands for a key the arguments do not hold)
Renamed(t, keep) == IF t \in keep \cup {Missing} THEN t ELSE "x-" \o t

\* gs with every token outside keep replaced by another value, in the
\* Player objects and in the keys of players_by_private
WithTokensRenamed(gs, keep) ==
    [gs EXCEPT
        !.players_by_name =
            [i \in 1..Len(gs.players_by_name) |->
                [gs.players_by_name[i] EXCEPT
                    !.private_id = Renamed(@, keep)]],
        !.players_by_private =
            [k \in {Renamed(t, keep) : t \in DOMAIN gs.players_by_private} |->
                gs.players_by_private[
                    CHOOSE t \in DOMAIN gs.players_by_private :
                        Renamed(t, keep) = k]]]

\* gs without the messages at the places in drop
WithoutMessages(gs, drop) ==
    LET kept == SelectSeq([k \in 1..Len(gs.messages) |-> k],
                          LAMBDA k : k \notin drop)
    IN [gs EXCEPT !.messages = [j \in 1..Len(kept) |-> gs.messages[kept[j]]]]

\* the places of the log that hold messages addressed to players other
\* than name
MailOfOthers(gs, name) ==
    {k \in 1..Len(gs.messages) : gs.messages[k].to_player # name}

\* the states that differ from gs only in the tokens of players other than
\* the holder of token t and in messages addressed to other players
Variants(gs, t) ==
    {WithoutMessages(keeping, drop) :
        keeping \in {gs, WithTokensRenamed(gs, {t})},
        drop \in SUBSET MailOfOthers(gs, gs.players_by_private[t])}

\* the requests the holder of token t makes as that player
PayloadsOf(t) ==
    GetStatusCalls({"1"}, {t})
    \cup SendMessageCalls({"1"}, {t}, OrMissing(Names2), OrMissing(Texts))
    \cup RegisterSupportCalls({"1"}, {t}, OrMissing(Names2))

\* the strings in a JSON text
StringsIn(text) == {text[k].v : k \in {j \in 1..Len(text) : text[j].t = "string"}}

\* a successful tool response, given in the state gs: its status carries
\* the token of the player it names and no token of another player, as an
\* object and as text, and lists no message but those addressed to that
\* player
ConfinedToOwnIdentity(gs, response) ==
    LET status == StatusIn(response)
        me == PlayerByName(gs, status.player_name)
        mine == SelectSeq(gs.messages, LAMBDA m : m.to_player = me.name)
        text == response.content.result.content[2].text
    IN /\ status.private_id = me.private_id
       /\ DOMAIN status =
             {"player_name", "private_id", "score", "round_number",
              "seconds_remaining", "other_players",
              "messages_received_this_round"}
       /\ \A k \in 1..Len(status.other_players) :
             /\ DOMAIN status.other_players[k] =
                    {"player_name", "score", "supported_you_last_round"}
             /\ status.other_players[k].player_name # me.name
       /\ StringsIn(text) \cap DOMAIN gs.players_by_private = {me.private_id}
       /\ Len(status.messages_received_this_round) <= Len(mine)
       /\ \A k \in 1..Len(status.messages_received_this_round) :
             /\ DOMAIN status.messages_received_this_round[k] =
                    {"from", "message"}
             /\ \E j \in 1..Len(mine) :
                   /\ mine[j].from_player =
                          status.messages_received_this_round[k].from
                   /\ mine[j].message =
                          status.messages_received_this_round[k].message

\* the payload with the token it presents replaced as WithTokensRenamed
\* replaces the tokens of the state
PayloadRenamed(p) ==
    [p EXCEPT !.params.arguments.private_id = Renamed(@, {})]

\* C25: in every reachable state, every successful tool response carries
\* the token of the player whose status it is and no other player's token,
\* and lists only messages addressed to that player; the response to every
\* failing request carries no token (it is the same when every token, in
\* the state and in the request, is replaced by another value); and the
\* response to every request a player makes with their token is the same
\* in every state that differs only in the other players' tokens and in
\* the messages addressed to other players.
C25_ConfinedToOwnIdentity ==
    [](/\ \A p \in Payloads(Names2, Tokens2) :
             LET h == mcp_endpoint(GS, p)
             IN /\ (p.method = "tools/call"
                    /\ IsToolResult(h.response, FALSE)) =>
                      ConfinedToOwnIdentity(h.gs, h.response)
                /\ IsFailure(h.response) =>
                      mcp_endpoint(WithTokensRenamed(GS, {}),
                                   PayloadRenamed(p)).response = h.response
       /\ \A t \in DOMAIN players_by_private :
             \A p \in PayloadsOf(t) :
                \A other \in Variants(GS, t) :
                   mcp_endpoint(other, p).response
                       = mcp_endpoint(GS, p).response)

\* both players are registered and each has been sent a message in the
\* round that is open, one of them by the other
C25_Witness ==
    /\ Len(players_by_name) = 2
    /\ Len(messages) = 2
    /\ messages[1].to_player # messages[2].to_player
    /\ messages[1].from_player = messages[2].from_player
    /\ messages[2].round_number = current_round
    /\ messages[1].round_number = current_round

(* ------------------------- requests without an id --------------------- *)

\* the requests that carry an id and name a method: every tool call, well
\* formed or not, the methods without params, an unknown method, and a
\* method that resembles the notifications/ prefix without being under it
IdentifiedPayloads ==
    {p \in Payloads(Names2, Tokens2) \cup PlainPayloads({"notifications"}, Ids) :
        p.id # None /\ p.method # None}

\* the response carries a result or an error object, and the id given
HasBody(response, id) ==
    /\ response.status_code = 200
    /\ response.content.jsonrpc = "2.0"
    /\ response.content.id = id
    /\ ("result" \in DOMAIN response.content)
           # ("error" \in DOMAIN response.content)

\* C26: a request without an id that names a method outside notifications/
\* is dispatched as the same request with an id is: it leaves the game
\* state that request leaves (a player registered, a message logged, a
\* support cast, a round resolved) and is answered with the same result or
\* error body, with null for the id, and never with the empty 204.  (A
\* request that names no method at all is outside the statement: without
\* an id the handler raises on it before any branch is reached.)
C26_NoIdStillDispatched ==
    [](\A p \in IdentifiedPayloads :
          p.method \notin NotificationMethods =>
              LET with_id == mcp_endpoint(GS, p)
                  without == mcp_endpoint(GS, [p EXCEPT !.id = None])
              IN /\ without.gs = with_id.gs
                 /\ HasBody(with_id.response, p.id)
                 /\ HasBody(without.response, None)
                 /\ without.response =
                        [with_id.response EXCEPT !.content.id = None])

\* requests without an id arrive where they take effect: A is registered
\* and B is not, in round 2, so that register_player, send_message,
\* register_support and game/advance_round each change the state
C26_Witness ==
    /\ current_round = 2
    /\ Len(players_by_name) = 1
    /\ players_by_name[1].name = "A"
    /\ players_by_name[1].score = -1
    /\ messages = <<>>

====
